---- MODULE Spec2Model ----
(***************************************************************************)
(* LTPA1 token generation and validation (markusberg/ltpa, index.ts).      *)
(*                                                                         *)
(* Text is a sequence of character codes, a Buffer a sequence of bytes     *)
(* (1-based here, 0-based in the source: source offset k is index k + 1).  *)
(* The module state is the four module-level variables of index.ts; the    *)
(* clock is Date.now() in whole seconds.                                   *)
(***************************************************************************)
EXTENDS Integers, Sequences, FiniteSets, TLC

VARIABLES
  ltpaSecrets,                 \* let ltpaSecrets: Secrets (undefined until setSecrets)
  validity,                    \* let validity = 5400
  gracePeriod,                 \* let gracePeriod = 300
  strictExpirationValidation,  \* let strictExpirationValidation = false
  now,                         \* Math.floor(Date.now() / 1000)
  cookie,                      \* the token text the caller currently holds
  ret,                         \* the outcome of the call that has just returned
  hist                         \* history of the held token (ghost)

vars == <<ltpaSecrets, validity, gracePeriod, strictExpirationValidation,
          now, cookie, ret, hist>>

-----------------------------------------------------------------------------
(* Bounds of the model                                                     *)

\* the clock advances at most this many seconds
MaxTicks == 1
\* usernames have 1..MaxUserLen bytes
MaxUserLen == 1
\* usernames given as strings have 1..MaxNameLen characters
MaxNameLen == 2

-----------------------------------------------------------------------------
(* Values that are not text, bytes or numbers.  Each is written in the     *)
(* shape of the values it stands beside, so that the two compare.          *)

\* a secret that is undefined (text holds no negative code)
Undefined == <<-1>>
\* Number.NaN beside the <<hi, lo>> numbers (lo is never negative)
NaN == <<0, -1>>
\* the optional timeStart argument: <<>> when left out, <<n>> when given
Absent == <<>>
\* Number.POSITIVE_INFINITY given as timeStart
Infinity == <<1, -1>>
\* ltpaSecrets before setSecrets is called
NoTable == [defined |-> FALSE, table |-> <<>>]
Table(t) == [defined |-> TRUE, table |-> t]

Min(a, b) == IF a < b THEN a ELSE b

-----------------------------------------------------------------------------
(* Number.prototype.toString(16)                                           *)

\* a variant that writes the digits above 9 in upper case
HexDigitUpper(d) == IF d < 10 THEN 48 + d ELSE 55 + d

HexDigit(d) == IF d < 10 THEN 48 + d ELSE 87 + d

RECURSIVE HexDigits(_)
HexDigits(n) == IF n < 16 THEN <<HexDigit(n)>>
                ELSE HexDigits(n \div 16) \o <<HexDigit(n % 16)>>

\* a variant that fills the text to 8 characters with leading zeros
toString16Padded(n) ==
  IF n < 0 THEN <<45>> \o HexDigits(0 - n)
  ELSE SubSeq([i \in 1..8 |-> 48], 1, 8 - Len(HexDigits(n))) \o HexDigits(n)

toString16(n) == IF n < 0 THEN <<45>> \o HexDigits(0 - n) ELSE HexDigits(n)

-----------------------------------------------------------------------------
(* parseInt(text, 16).  The text of a time field is 8 bytes, so its value  *)
(* may reach 16^8 - 1; a number is kept as <<hi, lo>> = hi * 65536 + lo    *)
(* with lo in 0..65535.  NaN is the result when no digit is found.         *)

NumOfInt(n) == <<n \div 65536, n % 65536>>
NumAdd(w, k) == <<w[1] + ((w[2] + k) \div 65536), (w[2] + k) % 65536>>
NumNeg(w) == IF w[2] = 0 THEN <<0 - w[1], 0>> ELSE <<0 - w[1] - 1, 65536 - w[2]>>
NumLess(a, b) == a[1] < b[1] \/ (a[1] = b[1] /\ a[2] < b[2])

\* JavaScript's comparisons and sums with NaN: every comparison is false
JsAdd(w, k) == IF w = NaN THEN NaN ELSE NumAdd(w, k)
JsGreater(w, n) == w # NaN /\ NumLess(NumOfInt(n), w)
JsLess(w, n) == w # NaN /\ NumLess(w, NumOfInt(n))

\* StrWhiteSpaceChar, the one-byte ones
IsWhiteSpace(c) == c \in {9, 10, 11, 12, 13, 32}
HexValue(c) == IF c \in 48..57 THEN c - 48
               ELSE IF c \in 97..102 THEN c - 87
               ELSE IF c \in 65..70 THEN c - 55
               ELSE -1

RECURSIVE SkipWhiteSpace(_)
SkipWhiteSpace(s) == IF s # <<>> /\ IsWhiteSpace(s[1]) THEN SkipWhiteSpace(Tail(s)) ELSE s

RECURSIVE ParseDigits(_, _, _)
\* acc: the value so far; any: whether a digit was read
ParseDigits(s, acc, any) ==
  IF s = <<>> \/ HexValue(Head(s)) < 0
  THEN IF any THEN acc ELSE NaN
  ELSE LET lo == (acc[2] * 16) + HexValue(Head(s))
       IN ParseDigits(Tail(s), <<(acc[1] * 16) + (lo \div 65536), lo % 65536>>, TRUE)

parseInt16(text) ==
  LET s == SkipWhiteSpace(text)
      negative == s # <<>> /\ s[1] = 45
      unsigned == IF s # <<>> /\ s[1] \in {43, 45} THEN Tail(s) ELSE s
      digits == IF Len(unsigned) >= 2 /\ unsigned[1] = 48 /\ unsigned[2] \in {88, 120}
                THEN SubSeq(unsigned, 3, Len(unsigned)) ELSE unsigned
      value == ParseDigits(digits, <<0, 0>>, FALSE)
  IN IF value = NaN THEN NaN ELSE IF negative THEN NumNeg(value) ELSE value

-----------------------------------------------------------------------------
(* base64, as Node's Buffer reads and writes it                            *)

Base64Char(v) == IF v < 26 THEN 65 + v
                 ELSE IF v < 52 THEN 71 + v
                 ELSE IF v < 62 THEN v - 4
                 ELSE IF v = 62 THEN 43 ELSE 47

\* unbase64: also the URL-safe '-' and '_'; -1 for any other character
Base64Value(c) == IF c \in 65..90 THEN c - 65
                  ELSE IF c \in 97..122 THEN c - 71
                  ELSE IF c \in 48..57 THEN c + 4
                  ELSE IF c \in {43, 45} THEN 62
                  ELSE IF c \in {47, 95} THEN 63
                  ELSE -1

RECURSIVE Base64Encode(_)
\* buf.toString('base64')
Base64Encode(b) ==
  IF Len(b) = 0 THEN <<>>
  ELSE IF Len(b) = 1
  THEN <<Base64Char(b[1] \div 4), Base64Char((b[1] % 4) * 16), 61, 61>>
  ELSE IF Len(b) = 2
  THEN <<Base64Char(b[1] \div 4), Base64Char(((b[1] % 4) * 16) + (b[2] \div 16)),
         Base64Char((b[2] % 16) * 4), 61>>
  ELSE <<Base64Char(b[1] \div 4), Base64Char(((b[1] % 4) * 16) + (b[2] \div 16)),
         Base64Char(((b[2] % 16) * 4) + (b[3] \div 64)), Base64Char(b[3] % 64)>>
       \o Base64Encode(SubSeq(b, 4, Len(b)))

\* the legal characters' values up to the first '=': illegal characters are
\* skipped, '=' stops the decoding
Base64Sextets(text) ==
  LET stops == {i \in 1..Len(text) : text[i] = 61} \cup {Len(text) + 1}
      stop == CHOOSE i \in stops : \A k \in stops : i <= k
      IsLegal(c) == Base64Value(c) >= 0
      legal == SelectSeq(SubSeq(text, 1, stop - 1), IsLegal)
  IN SubSeq([i \in 1..Len(legal) |-> Base64Value(legal[i])], 1, Len(legal))

\* every full 8 bits of the sextets' 6 bits each
SextetsToBytes(v) ==
  LET n == (Len(v) * 6) \div 8
      Byte(k) == LET i == ((8 * k) \div 6) + 1
                     r == (8 * k) % 6
                 IN IF r = 0 THEN (v[i] * 4) + (v[i + 1] \div 16)
                    ELSE IF r = 2 THEN ((v[i] % 16) * 16) + (v[i + 1] \div 4)
                    ELSE ((v[i] % 4) * 64) + v[i + 1]
  IN SubSeq([k \in 1..n |-> Byte(k - 1)], 1, n)

Base64Decode(text) == SextetsToBytes(Base64Sextets(text))

\* Buffer.byteLength(text, 'base64'): computed from the length of the text
\* and its trailing '=' alone
byteLengthBase64(text) ==
  LET n == Len(text)
      n1 == IF n > 0 /\ text[n] = 61 THEN n - 1 ELSE n
      n2 == IF n1 > 1 /\ text[n1] = 61 THEN n1 - 1 ELSE n1
  IN (n2 * 3) \div 4

-----------------------------------------------------------------------------
(* Buffer                                                                  *)

\* Buffer.alloc(size): zero-filled
BufferAlloc(size) == SubSeq([i \in 1..size |-> 0], 1, size)

\* buf.write(bytes, offset, length): at most `length` bytes, and no more than
\* fit; `offset` is the source's 0-based offset
BufferWrite(buf, bytes, offset, length) ==
  LET n == Min(Min(Len(bytes), length), Len(buf) - offset)
  IN SubSeq(buf, 1, offset) \o SubSeq(bytes, 1, n) \o SubSeq(buf, offset + n + 1, Len(buf))

\* Buffer.alloc(size, text, 'base64'): the decoded bytes, repeated to fill
BufferAllocBase64(size, text) ==
  LET fill == Base64Decode(text)
  IN SubSeq([i \in 1..size |-> fill[((i - 1) % Len(fill)) + 1]], 1, size)

\* buf.subarray(start, end), 0-based, end exclusive
BufferSlice(buf, start, end) == SubSeq(buf, start + 1, end)

-----------------------------------------------------------------------------
(* createHash('sha1') of node:crypto (FIPS 180-4).  A 32-bit word is kept  *)
(* as <<high 16 bits, low 16 bits>>.                                       *)

Pow2(n) == 2 ^ n
ByteXor(a, b) == LET bit(i) == (((a \div Pow2(i)) % 2) + ((b \div Pow2(i)) % 2)) % 2
                 IN bit(0) + (2 * bit(1)) + (4 * bit(2)) + (8 * bit(3))
                    + (16 * bit(4)) + (32 * bit(5)) + (64 * bit(6)) + (128 * bit(7))
ByteAnd(a, b) == LET bit(i) == ((a \div Pow2(i)) % 2) * ((b \div Pow2(i)) % 2)
                 IN bit(0) + (2 * bit(1)) + (4 * bit(2)) + (8 * bit(3))
                    + (16 * bit(4)) + (32 * bit(5)) + (64 * bit(6)) + (128 * bit(7))
XorTable == [a \in 0..255 |-> [b \in 0..255 |-> ByteXor(a, b)]]
AndTable == [a \in 0..255 |-> [b \in 0..255 |-> ByteAnd(a, b)]]

Xor16(a, b) == XorTable[a % 256][b % 256] + (256 * XorTable[a \div 256][b \div 256])
And16(a, b) == AndTable[a % 256][b % 256] + (256 * AndTable[a \div 256][b \div 256])

WordXor(x, y) == <<Xor16(x[1], y[1]), Xor16(x[2], y[2])>>
WordAnd(x, y) == <<And16(x[1], y[1]), And16(x[2], y[2])>>
WordAdd(x, y) == LET lo == x[2] + y[2]
                     hi == x[1] + y[1] + (lo \div 65536)
                 IN <<hi % 65536, lo % 65536>>
RotlSmall(x, n) == <<((x[1] * Pow2(n)) % 65536) + (x[2] \div Pow2(16 - n)),
                     ((x[2] * Pow2(n)) % 65536) + (x[1] \div Pow2(16 - n))>>
Rotl(x, n) == IF n < 16 THEN RotlSmall(x, n) ELSE RotlSmall(<<x[2], x[1]>>, n - 16)

\* the message, 0x80, zeros up to 56 mod 64, the bit length in 8 bytes
ShaPad(msg) ==
  LET zeros == (119 - Len(msg)) % 64
      bits == Len(msg) * 8
  IN msg \o <<128>> \o [i \in 1..zeros |-> 0]
         \o <<0, 0, 0, 0, bits \div 16777216, (bits \div 65536) % 256,
              (bits \div 256) % 256, bits % 256>>

\* word t (from 0) of the block that starts after `base` bytes
BlockWord(m, base, t) ==
  <<(m[base + (4 * t) + 1] * 256) + m[base + (4 * t) + 2],
    (m[base + (4 * t) + 3] * 256) + m[base + (4 * t) + 4]>>

\* words `from`..`to` - 1 (from 0) appended to the schedule w
RECURSIVE ShaSchedule(_, _, _)
ShaSchedule(w, from, to) ==
  IF to - from = 1
  THEN Append(w, Rotl(WordXor(WordXor(w[from - 2], w[from - 7]),
                              WordXor(w[from - 13], w[from - 15])), 1))
  ELSE LET mid == (from + to) \div 2
           left == ShaSchedule(w, from, mid)
       IN IF Len(left) = mid THEN ShaSchedule(left, mid, to) ELSE <<>>

\* Ch, Parity, Maj, Parity
ShaF(t, b, c, d) == IF t < 20 THEN WordXor(d, WordAnd(b, WordXor(c, d)))
                    ELSE IF t < 40 THEN WordXor(WordXor(b, c), d)
                    ELSE IF t < 60 THEN WordXor(WordAnd(b, c), WordAnd(d, WordXor(b, c)))
                    ELSE WordXor(WordXor(b, c), d)
\* 5a827999, 6ed9eba1, 8f1bbcdc, ca62c1d6
ShaK(t) == IF t < 20 THEN <<23170, 31129>>
           ELSE IF t < 40 THEN <<28377, 60321>>
           ELSE IF t < 60 THEN <<36635, 48348>>
           ELSE <<51810, 49622>>
\* 67452301, efcdab89, 98badcfe, 10325476, c3d2e1f0
ShaInit == <<<<26437, 8961>>, <<61389, 43913>>, <<39098, 56574>>, <<4146, 21622>>,
             <<50130, 57840>>>>

ShaRound(s, w, t) ==
  <<WordAdd(WordAdd(WordAdd(Rotl(s[1], 5), ShaF(t, s[2], s[3], s[4])),
                    WordAdd(s[5], ShaK(t))), w[t + 1]),
    s[1], Rotl(s[2], 30), s[3], s[4]>>

\* rounds `from`..`to` - 1 on the working variables s
RECURSIVE ShaRounds(_, _, _, _)
ShaRounds(s, w, from, to) ==
  IF to - from = 1 THEN ShaRound(s, w, from)
  ELSE LET mid == (from + to) \div 2
           left == ShaRounds(s, w, from, mid)
       IN IF Len(left) = 5 THEN ShaRounds(left, w, mid, to) ELSE <<>>

RECURSIVE ShaBlocks(_, _, _)
ShaBlocks(h, m, base) ==
  IF base >= Len(m) THEN h
  ELSE LET w == ShaSchedule(SubSeq([t \in 1..16 |-> BlockWord(m, base, t - 1)], 1, 16),
                            16, 80)
           s == IF Len(w) = 80 THEN ShaRounds(h, w, 0, 80) ELSE <<>>
           nxt == [i \in 1..5 |-> WordAdd(h[i], s[i])]
       IN IF Len(nxt) = 5 THEN ShaBlocks(nxt, m, base + 64) ELSE <<>>

WordBytes(x) == <<x[1] \div 256, x[1] % 256, x[2] \div 256, x[2] % 256>>

\* a variant that hashes the buffer from the username on
sha1FromUserName(msg) ==
  LET h == ShaBlocks(ShaInit, ShaPad(SubSeq(msg, 21, Len(msg))), 0)
  IN WordBytes(h[1]) \o WordBytes(h[2]) \o WordBytes(h[3]) \o WordBytes(h[4])
       \o WordBytes(h[5])

\* hash.update(msg); hash.digest(): 20 bytes
sha1(msg) ==
  LET h == ShaBlocks(ShaInit, ShaPad(msg), 0)
  IN WordBytes(h[1]) \o WordBytes(h[2]) \o WordBytes(h[3]) \o WordBytes(h[4])
       \o WordBytes(h[5])

-----------------------------------------------------------------------------
(* Inputs the calls are made with                                          *)

\* the clock when the module is loaded (the timeStart of the known tokens)
Epoch == 1234567890

\* 'AAECAwQFBgcICQoLDA0ODxAREhM=' and 'AAABAQICAwMEBAUFBgYHBwgICQk=', the
\* secrets of the tests (20 bytes each), and one that decodes to 3 bytes
Secret1 == Base64Encode([i \in 1..20 |-> i - 1])
Secret2 == Base64Encode([i \in 1..20 |-> (i - 1) \div 2])
ShortSecret == Base64Encode(<<0, 1, 2>>)

TableA == "example.com" :> Secret1
TableB == ("example.com" :> Secret2) @@ ("short.example.com" :> ShortSecret)
SecretTables == {TableA, TableB}

\* registered names, one that is in no table, a property every object
\* inherits from Object.prototype, and the empty text
Domains == {"example.com", "short.example.com", "blabla.example.com",
            "constructor", ""}

Validities == {5400, 2}
GracePeriods == {300, 1}

\* usernames: 'M', 'MM', ...
Users == {[i \in 1..n |-> 77] : n \in 1..MaxUserLen}

TimeStarts == {Absent, <<Epoch - 3>>, <<Epoch + 3>>}

-----------------------------------------------------------------------------
(* Usernames: iconv-lite's single-byte codecs ibm850 and ibm852, and the  *)
(* escape byte that marks a character of codepage 852.  A string is the   *)
(* sequence of its characters' code points.                               *)

\* the characters of bytes 128..255 in codepage 850 and in codepage 852; bytes
\* 0..127 are the characters 0..127 in both
Cp850 ==
  <<199, 252, 233, 226, 228, 224, 229, 231, 234, 235, 232, 239, 238, 236, 196, 197,
    201, 230, 198, 244, 246, 242, 251, 249, 255, 214, 220, 248, 163, 216, 215, 402,
    225, 237, 243, 250, 241, 209, 170, 186, 191, 174, 172, 189, 188, 161, 171, 187,
    9617, 9618, 9619, 9474, 9508, 193, 194, 192, 169, 9571, 9553, 9559, 9565, 162, 165, 9488,
    9492, 9524, 9516, 9500, 9472, 9532, 227, 195, 9562, 9556, 9577, 9574, 9568, 9552, 9580, 164,
    240, 208, 202, 203, 200, 305, 205, 206, 207, 9496, 9484, 9608, 9604, 166, 204, 9600,
    211, 223, 212, 210, 245, 213, 181, 254, 222, 218, 219, 217, 253, 221, 175, 180,
    173, 177, 8215, 190, 182, 167, 247, 184, 176, 168, 183, 185, 179, 178, 9632, 160>>

Cp852 ==
  <<199, 252, 233, 226, 228, 367, 263, 231, 322, 235, 336, 337, 238, 377, 196, 262,
    201, 313, 314, 244, 246, 317, 318, 346, 347, 214, 220, 356, 357, 321, 215, 269,
    225, 237, 243, 250, 260, 261, 381, 382, 280, 281, 172, 378, 268, 351, 171, 187,
    9617, 9618, 9619, 9474, 9508, 193, 194, 282, 350, 9571, 9553, 9559, 9565, 379, 380, 9488,
    9492, 9524, 9516, 9500, 9472, 9532, 258, 259, 9562, 9556, 9577, 9574, 9568, 9552, 9580, 164,
    273, 272, 270, 203, 271, 327, 205, 206, 283, 9496, 9484, 9608, 9604, 354, 366, 9600,
    211, 223, 212, 323, 324, 328, 352, 353, 340, 218, 341, 368, 253, 221, 355, 180,
    173, 733, 731, 711, 728, 167, 247, 184, 176, 168, 729, 369, 344, 345, 9632, 160>>

\* iconv.encode(char, table): the byte of the character, '?' for a character
\* the table does not have
IconvEncode(char, table) ==
  IF char < 128 THEN char
  ELSE IF \E i \in 1..128 : table[i] = char
  THEN 127 + (CHOOSE i \in 1..128 : table[i] = char)
  ELSE 63

\* iconv.decode(byte, table)
IconvDecode(byte, table) == IF byte < 128 THEN byte ELSE table[byte - 127]

\* Special handling of Codepage 852
ibm852Chars ==
  <<199, 252, 233, 226, 228, 367, 263, 231, 322, 235, 336, 337, 238, 377, 196, 262,
    201, 313, 314, 244, 246, 317, 318, 346, 347, 214, 220, 356, 357, 321, 269, 225,
    237, 243, 250, 260, 261, 381, 382, 280, 281, 172, 378, 268, 351, 193, 194, 282,
    350, 379, 380, 258, 259, 273, 272, 270, 203, 271, 327, 205, 206, 283, 354, 366,
    211, 223, 212, 323, 324, 328, 352, 353, 340, 218, 341, 368, 253, 221, 355, 369,
    344, 345>>
buf852 == 6

RECURSIVE generateUserNameBuf(_)
\* generateUserNameBuf(username): the bytes of the characters in turn
generateUserNameBuf(username) ==
  IF username = <<>> THEN <<>>
  ELSE LET n == Len(username)
           char == username[n]
           acc == generateUserNameBuf(SubSeq(username, 1, n - 1))
       IN IF \E i \in 1..Len(ibm852Chars) : ibm852Chars[i] = char
          THEN acc \o <<buf852, IconvEncode(char, Cp852)>>
          ELSE acc \o <<IconvEncode(char, Cp850)>>

RECURSIVE DecodeFrom(_, _)
\* getUserName: the loop, from the 0-based index i on
DecodeFrom(bufUsername, i) ==
  IF i >= Len(bufUsername) THEN <<>>
  ELSE IF bufUsername[i + 1] = buf852
  THEN (IF i + 1 < Len(bufUsername)
        THEN <<IconvDecode(bufUsername[i + 2], Cp852)>> ELSE <<>>)
       \o DecodeFrom(bufUsername, i + 2)
  ELSE <<IconvDecode(bufUsername[i + 1], Cp850)>> \o DecodeFrom(bufUsername, i + 1)

-----------------------------------------------------------------------------
(* index.ts                                                                *)

OK == "ok"
TypeError == "TypeError"
NoToken == "No token provided"
NoDomain == "No domain provided"
NoSecret == "No such server secret exists"
TooShort == "Ltpa Token too short"
NotYetValid == "Ltpa Token not yet valid"
Expired == "Ltpa Token has expired"
BadMagic == "Incorrect magic string"
BadSignature == "Ltpa Token signature doesn't validate"
\* no error yet: refresh has returned from validate and has not yet called
\* generate
Running == "running"

\* the value a function returns, or the error it throws
Returns(v) == [err |-> OK, val |-> v]
Throws(e) == [err |-> e, val |-> <<>>]

\* names every object literal inherits; their values are functions
ObjectPrototypeKeys == {"constructor", "toString", "valueOf", "hasOwnProperty"}
Inherited == <<-2>>

\* secrets[domain], for `secrets` an object
SecretOf(secrets, domain) ==
  IF domain \in DOMAIN secrets.table THEN secrets.table[domain]
  ELSE IF domain \in ObjectPrototypeKeys THEN Inherited
  ELSE Undefined

\* !serverSecret
Falsy(v) == v = Undefined \/ v = <<>>
IsString(v) == v # Undefined /\ v # Inherited

VERSION == <<0, 1, 2, 3>>
Paranoid == <<48, 49, 50, 51, 52, 53, 54, 55, 56, 57, 97, 98, 99, 100, 101, 102, 103, 104, 105, 106>>

\* (Infinity).toString(16): 'Infinity'; Infinity less or plus any seconds is
\* Infinity
InfinityText == <<73, 110, 102, 105, 110, 105, 116, 121>>

\* generate(userNameBuf, domain, timeStart), Date.now() giving `clock`
generate(userNameBuf, domain, timeStart, clock) ==
  LET start == IF timeStart # Absent /\ timeStart[1] # 0 THEN timeStart[1] ELSE clock
      timeCreation == IF timeStart = Infinity THEN InfinityText
                      ELSE toString16(start - gracePeriod)
      timeExpiration == IF timeStart = Infinity THEN InfinityText
                        ELSE toString16(start + validity + gracePeriod)
      size == Len(userNameBuf) + 40
      b0 == BufferAlloc(size)
      b1 == BufferWrite(b0, VERSION, 0, 4)
      b2 == BufferWrite(b1, timeCreation, 4, size - 4)
      b3 == BufferWrite(b2, timeExpiration, 12, size - 12)
      b4 == BufferWrite(b3, userNameBuf, 20, size - 20)
      serverSecret == SecretOf(ltpaSecrets, domain)
      b5 == BufferWrite(b4, Base64Decode(serverSecret), size - 20, 20)
      hash == sha1(b5)
      b6 == BufferWrite(b5, Paranoid, size - 20, 20)
      b7 == BufferWrite(b6, hash, size - 20, 20)
  IN IF ~ltpaSecrets.defined THEN Throws(TypeError)
     ELSE IF ~IsString(serverSecret) THEN Throws(TypeError)
     ELSE Returns(Base64Encode(b7))

\* the two time fields of the decoded token, as validate reads them
TimeCreationOf(ltpaToken) == parseInt16(BufferSlice(ltpaToken, 4, 12))
TimeExpirationOf(ltpaToken) == parseInt16(BufferSlice(ltpaToken, 12, 20))

\* a variant that looks at the domain only
InputCheckDomainOnly(token, domain) ==
  IF domain = "" THEN NoDomain ELSE OK

\* validate: basic sanity checking of in-data
InputCheck(token, domain) ==
  IF token = <<>> THEN NoToken
  ELSE IF domain = "" THEN NoDomain
  ELSE OK

\* a variant that compares with >=
NotYetValidCheckInclusive(timeCreation, clock) ==
  ~JsLess(JsAdd(timeCreation, 0 - gracePeriod), clock) /\ timeCreation # NaN

\* validate: timeCreation - gracePeriod > now
NotYetValidCheck(timeCreation, clock) ==
  JsGreater(JsAdd(timeCreation, 0 - gracePeriod), clock)

\* a variant that compares with <=
ExpiredCheckInclusive(timeCreation, timeExpiration, clock) ==
  LET exp == IF strictExpirationValidation THEN timeExpiration
             ELSE JsAdd(timeCreation, validity + (gracePeriod * 2))
  IN exp # NaN /\ ~JsGreater(exp, clock)

\* a variant that ignores the strict flag
ExpiredCheckLenient(timeCreation, timeExpiration, clock) ==
  JsLess(JsAdd(timeCreation, validity + (gracePeriod * 2)), clock)

\* a variant that adds one gracePeriod in lenient mode
ExpiredCheckOneGrace(timeCreation, timeExpiration, clock) ==
  LET exp == IF strictExpirationValidation THEN timeExpiration
             ELSE JsAdd(timeCreation, validity + gracePeriod)
  IN JsLess(exp, clock)

\* a variant that reports the expiry for one gracePeriod only
ExpiredCheckForAWhile(timeCreation, timeExpiration, clock) ==
  LET exp == IF strictExpirationValidation THEN timeExpiration
             ELSE JsAdd(timeCreation, validity + (gracePeriod * 2))
  IN JsLess(exp, clock) /\ ~JsLess(JsAdd(exp, gracePeriod), clock)

\* validate: exp < now
ExpiredCheck(timeCreation, timeExpiration, clock) ==
  LET exp == IF strictExpirationValidation THEN timeExpiration
             ELSE JsAdd(timeCreation, validity + (gracePeriod * 2))
  IN JsLess(exp, clock)

\* a variant that leaves the last signature byte out of the comparison
HashMatchesButLast(ltpaToken, serverSecret) ==
  LET size == Len(ltpaToken)
      signature == BufferSlice(ltpaToken, size - 20, size)
      keyed == BufferWrite(ltpaToken, Base64Decode(serverSecret), size - 20, 20)
  IN SubSeq(sha1(keyed), 1, 19) = SubSeq(signature, 1, 19)

\* validate: the secret written over the signature, the hash of the whole
\* buffer compared with the signature that was there
HashMatches(ltpaToken, serverSecret) ==
  LET size == Len(ltpaToken)
      signature == BufferSlice(ltpaToken, size - 20, size)
      keyed == BufferWrite(ltpaToken, Base64Decode(serverSecret), size - 20, 20)
  IN sha1(keyed) = signature

\* a variant that checks the version before the times
ChecksMagicFirst(ltpaToken, serverSecret, clock) ==
  IF BufferSlice(ltpaToken, 0, 4) # VERSION THEN BadMagic
  ELSE IF NotYetValidCheck(TimeCreationOf(ltpaToken), clock) THEN NotYetValid
  ELSE IF ExpiredCheck(TimeCreationOf(ltpaToken), TimeExpirationOf(ltpaToken), clock)
  THEN Expired
  ELSE IF ~IsString(serverSecret) THEN TypeError
  ELSE IF ~HashMatches(ltpaToken, serverSecret) THEN BadSignature
  ELSE OK

\* validate: the checks on a decoded token of 41 bytes or more
Checks(ltpaToken, serverSecret, clock) ==
  IF NotYetValidCheck(TimeCreationOf(ltpaToken), clock) THEN NotYetValid
  ELSE IF ExpiredCheck(TimeCreationOf(ltpaToken), TimeExpirationOf(ltpaToken), clock)
  THEN Expired
  ELSE IF BufferSlice(ltpaToken, 0, 4) # VERSION THEN BadMagic
  ELSE IF ~IsString(serverSecret) THEN TypeError
  ELSE IF ~HashMatches(ltpaToken, serverSecret) THEN BadSignature
  ELSE OK

\* validate(token, domain), Date.now() giving `clock`: the error thrown, or OK
validate(token, domain, clock) ==
  IF InputCheck(token, domain) # OK THEN InputCheck(token, domain)
  ELSE IF ~ltpaSecrets.defined THEN TypeError
  ELSE IF Falsy(SecretOf(ltpaSecrets, domain)) THEN NoSecret
  ELSE IF byteLengthBase64(token) > 0 /\ Base64Decode(token) = <<>> THEN TypeError
  ELSE IF byteLengthBase64(token) < 41 THEN TooShort
  ELSE Checks(BufferAllocBase64(byteLengthBase64(token), token),
              SecretOf(ltpaSecrets, domain), clock)

\* a variant that checks the version
getUserNameBufChecked(token) ==
  LET size == byteLengthBase64(token)
  IN IF size > 0 /\ Base64Decode(token) = <<>> THEN Throws(TypeError)
     ELSE IF size >= 4 /\ BufferSlice(BufferAllocBase64(size, token), 0, 4) # VERSION
     THEN Throws(BadMagic)
     ELSE Returns(BufferSlice(BufferAllocBase64(size, token), 20, size - 20))

\* getUserNameBuf(token): Buffer.alloc throws when the fill text decodes to
\* nothing; subarray clamps its bounds, so a short buffer gives no bytes
getUserNameBuf(token) ==
  LET size == byteLengthBase64(token)
  IN IF size > 0 /\ Base64Decode(token) = <<>> THEN Throws(TypeError)
     ELSE Returns(BufferSlice(BufferAllocBase64(size, token), 20, size - 20))

\* getUserName(token)
getUserName(token) ==
  LET bufUsername == getUserNameBuf(token)
  IN IF bufUsername.err # OK THEN bufUsername
     ELSE Returns(DecodeFrom(bufUsername.val, 0))

\* a variant that does not validate
refreshUnchecked(token, domain, clock) ==
  LET userNameBuf == getUserNameBuf(token)
  IN IF userNameBuf.err # OK THEN userNameBuf
     ELSE generate(userNameBuf.val, domain, Absent, clock)

\* a variant that keeps the creation time of the token it is given
refreshKeepTimes(token, domain, clock) ==
  LET e == validate(token, domain, clock)
      userNameBuf == getUserNameBuf(token)
      created == parseInt16(BufferSlice(Base64Decode(token), 4, 12))
  IN IF e # OK THEN Throws(e)
     ELSE IF userNameBuf.err # OK THEN userNameBuf
     ELSE generate(userNameBuf.val, domain,
                   <<(created[1] * 65536) + created[2] + gracePeriod>>, clock)

\* refresh(token, domain), Date.now() giving `clock`
refresh(token, domain, clock) ==
  LET e == validate(token, domain, clock)
      userNameBuf == getUserNameBuf(token)
  IN IF e # OK THEN Throws(e)
     ELSE IF userNameBuf.err # OK THEN userNameBuf
     ELSE generate(userNameBuf.val, domain, Absent, clock)

-----------------------------------------------------------------------------
(* The state machine: a caller configures the module, has one token        *)
(* issued, and presents it (or a damaged copy of it) for validation while  *)
(* the configuration and the clock change.                                 *)

\* no call has a result pending
None == [op |-> "none", token |-> <<>>, domain |-> "", err |-> OK, val |-> <<>>]

\* nothing issued yet
NoHist == [issued |-> FALSE, user |-> <<>>, domain |-> "", timeStart |-> Absent,
           at |-> 0, validity |-> 0, gracePeriod |-> 0, secrets |-> NoTable,
           tampered |-> FALSE, pos |-> 0, bit |-> 0, accepted |-> "", acceptedAt |-> 0,
           refreshed |-> FALSE, name |-> <<>>]

\* the state once index.ts is loaded
Init ==
  /\ ltpaSecrets = NoTable
  /\ validity = 5400
  /\ gracePeriod = 300
  /\ strictExpirationValidation = FALSE
  /\ now = Epoch
  /\ cookie = <<>>
  /\ ret = None
  /\ hist = NoHist

\* a variant that may run while another call is in progress
SetValidityAnyTime(seconds) ==
  /\ validity' = seconds
  /\ UNCHANGED <<ltpaSecrets, gracePeriod, strictExpirationValidation, now, cookie, ret, hist>>

SetValidity(seconds) ==
  /\ ret = None
  /\ validity' = seconds
  /\ UNCHANGED <<ltpaSecrets, gracePeriod, strictExpirationValidation, now, cookie, ret, hist>>

\* a variant that sets validity as well
SetGracePeriodAndValidity(seconds) ==
  /\ ret = None
  /\ gracePeriod' = seconds
  /\ validity' = seconds
  /\ UNCHANGED <<ltpaSecrets, strictExpirationValidation, now, cookie, ret, hist>>

SetGracePeriod(seconds) ==
  /\ ret = None
  /\ gracePeriod' = seconds
  /\ UNCHANGED <<ltpaSecrets, validity, strictExpirationValidation, now, cookie, ret, hist>>

SetStrictExpirationValidation(strict) ==
  /\ ret = None
  /\ strictExpirationValidation' = strict
  /\ UNCHANGED <<ltpaSecrets, validity, gracePeriod, now, cookie, ret, hist>>

\* a variant that keeps the entries of the table it replaces
SetSecretsMerge(secrets) ==
  /\ ret = None
  /\ ltpaSecrets' = Table(secrets @@ ltpaSecrets.table)
  /\ UNCHANGED <<validity, gracePeriod, strictExpirationValidation, now, cookie, ret, hist>>

SetSecrets(secrets) ==
  /\ ret = None
  /\ ltpaSecrets' = Table(secrets)
  /\ UNCHANGED <<validity, gracePeriod, strictExpirationValidation, now, cookie, ret, hist>>

\* a second passes
Tick ==
  /\ ret = None
  /\ now < Epoch + MaxTicks
  /\ now' = now + 1
  /\ UNCHANGED <<ltpaSecrets, validity, gracePeriod, strictExpirationValidation, cookie, ret, hist>>

\* the caller has a token issued and keeps it
Generate(userNameBuf, domain, timeStart) ==
  /\ ret = None
  /\ ~hist.issued
  /\ \E r \in {generate(userNameBuf, domain, timeStart, now)} :
       /\ ret' = [op |-> "generate", token |-> <<>>, domain |-> domain,
                  err |-> r.err, val |-> r.val]
       /\ cookie' = IF r.err = OK THEN r.val ELSE cookie
       /\ hist' = IF r.err = OK
                  THEN [NoHist EXCEPT !.issued = TRUE, !.user = userNameBuf,
                                      !.domain = domain, !.timeStart = timeStart,
                                      !.at = now, !.validity = validity,
                                      !.gracePeriod = gracePeriod,
                                      !.secrets = ltpaSecrets]
                  ELSE hist
  /\ UNCHANGED <<ltpaSecrets, validity, gracePeriod, strictExpirationValidation, now>>

\* the caller presents a token text
Validate(token, domain) ==
  /\ ret = None
  /\ \E e \in {validate(token, domain, now)} :
       ret' = [op |-> "validate", token |-> token, domain |-> domain,
               err |-> e, val |-> <<>>]
  /\ UNCHANGED <<ltpaSecrets, validity, gracePeriod, strictExpirationValidation,
                 now, cookie, hist>>

\* the caller has seen the result
Return ==
  /\ ret # None
  /\ ret.err # Running
  /\ ret' = None
  /\ UNCHANGED <<ltpaSecrets, validity, gracePeriod, strictExpirationValidation,
                 now, cookie, hist>>

\* one bit of byte `pos` of the token changed
FlipBit(token, pos, bit) ==
  LET buf == Base64Decode(token)
  IN Base64Encode([buf EXCEPT ![pos + 1] = ByteXor(buf[pos + 1], Pow2(bit))])

\* a token that has just been accepted is damaged on its way back
Tamper(pos, bit) ==
  /\ ret.op = "validate" /\ ret.err = OK /\ ret.token = cookie
  /\ ~hist.tampered
  /\ pos < byteLengthBase64(cookie)
  /\ cookie' = FlipBit(cookie, pos, bit)
  /\ hist' = [hist EXCEPT !.tampered = TRUE, !.pos = pos, !.bit = bit,
                          !.accepted = ret.domain, !.acceptedAt = now]
  /\ ret' = None
  /\ UNCHANGED <<ltpaSecrets, validity, gracePeriod, strictExpirationValidation, now>>

\* the caller asks for the username bytes of a token text
GetUserNameBuf(token) ==
  /\ ret = None
  /\ \E r \in {getUserNameBuf(token)} :
       ret' = [op |-> "getUserNameBuf", token |-> token, domain |-> "",
               err |-> r.err, val |-> r.val]
  /\ UNCHANGED <<ltpaSecrets, validity, gracePeriod, strictExpirationValidation,
                 now, cookie, hist>>

\* the caller asks for the username of a token text
GetUserName(token) ==
  /\ ret = None
  /\ \E r \in {getUserName(token)} :
       ret' = [op |-> "getUserName", token |-> token, domain |-> "",
               err |-> r.err, val |-> r.val]
  /\ UNCHANGED <<ltpaSecrets, validity, gracePeriod, strictExpirationValidation,
                 now, cookie, hist>>

\* what the caller presents: the token held, or no token
Presented == {cookie, <<>>}

Next ==
  \/ \E seconds \in Validities : SetValidity(seconds)
  \/ \E seconds \in GracePeriods : SetGracePeriod(seconds)
  \/ \E strict \in BOOLEAN : SetStrictExpirationValidation(strict)
  \/ \E secrets \in SecretTables : SetSecrets(secrets)
  \/ Tick
  \/ \E u \in Users, d \in Domains, ts \in TimeStarts : Generate(u, d, ts)
  \/ \E t \in Presented, d \in Domains : Validate(t, d)
  \/ GetUserNameBuf(cookie)
  \/ GetUserName(cookie)
  \/ Return
  \/ Tamper(0, 0)

Spec == Init /\ [][Next]_vars

\* every byte of the longest token, every bit of a byte
Offsets == 0..(MaxUserLen + 39)
Bits == 0..7

\* one table, the default validity and grace period, a token issued now and
\* damaged anywhere
NextTamper ==
  \/ SetSecrets(TableA)
  \/ \E strict \in BOOLEAN : SetStrictExpirationValidation(strict)
  \/ \E u \in Users, d \in Domains : Generate(u, d, Absent)
  \/ \E t \in Presented, d \in Domains : Validate(t, d)
  \/ Return
  \/ \E pos \in Offsets, bit \in Bits : Tamper(pos, bit)

SpecTamper == Init /\ [][NextTamper]_vars

\* the first `n` bytes of a token, as a token text
Cut(token, n) == Base64Encode(SubSeq(Base64Decode(token), 1, n))

\* the token a caller holds, cut to 33 bytes
CutTexts == IF cookie = <<>> THEN {} ELSE {Cut(cookie, 33)}

\* texts that are no tokens: '====', 'A', 'AAEC', and 'AAAA' followed by 52
\* characters that are not base64
PaddingOnly == <<61, 61, 61, 61>>
OneChar == <<65>>
Garbled == <<65, 65, 65, 65>> \o SubSeq([i \in 1..52 |-> 33], 1, 52)
OddTexts == {PaddingOnly, OneChar, ShortSecret, Garbled}

\* the caller has the token it holds, or any text, refreshed and keeps the
\* new token
Refresh(token, domain) ==
  /\ ret = None
  /\ \E r \in {refresh(token, domain, now)} :
       /\ ret' = [op |-> "refresh", token |-> token, domain |-> domain,
                  err |-> r.err, val |-> r.val]
       /\ cookie' = IF r.err = OK THEN r.val ELSE cookie
       /\ hist' = IF r.err = OK
                  THEN [hist EXCEPT !.domain = domain, !.timeStart = Absent,
                                    !.at = now, !.validity = validity,
                                    !.gracePeriod = gracePeriod,
                                    !.secrets = ltpaSecrets, !.refreshed = TRUE]
                  ELSE hist
  /\ UNCHANGED <<ltpaSecrets, validity, gracePeriod, strictExpirationValidation, now>>

\* usernames, and the empty buffer
UserBufs == Users \cup {<<>>}

\* tokens are issued for any buffer and refreshed while validity,
\* gracePeriod, the table and the clock change
NextRefresh ==
  \/ \E seconds \in Validities : SetValidity(seconds)
  \/ \E seconds \in GracePeriods : SetGracePeriod(seconds)
  \/ \E secrets \in SecretTables : SetSecrets(secrets)
  \/ Tick
  \/ \E u \in UserBufs, ts \in TimeStarts : Generate(u, "example.com", ts)
  \/ \E t \in Presented, d \in Domains : Refresh(t, d)
  \/ Return

SpecRefresh == Init /\ [][NextRefresh]_vars

\* the caller has the buffer of a username made
GenerateUserNameBuf(username) ==
  /\ ret = None
  /\ ~hist.issued
  /\ ret' = [op |-> "generateUserNameBuf", token |-> username, domain |-> "",
             err |-> OK, val |-> generateUserNameBuf(username)]
  /\ UNCHANGED <<ltpaSecrets, validity, gracePeriod, strictExpirationValidation,
                 now, cookie, hist>>

\* the caller has a token issued for the buffer just made and keeps it
GenerateNamed(domain) ==
  /\ ret.op = "generateUserNameBuf"
  /\ \E r \in {generate(ret.val, domain, Absent, now)} :
       /\ ret' = [op |-> "generate", token |-> <<>>, domain |-> domain,
                  err |-> r.err, val |-> r.val]
       /\ cookie' = IF r.err = OK THEN r.val ELSE cookie
       /\ hist' = IF r.err = OK
                  THEN [NoHist EXCEPT !.issued = TRUE, !.user = ret.val,
                                      !.name = ret.token,
                                      !.domain = domain, !.at = now,
                                      !.validity = validity,
                                      !.gracePeriod = gracePeriod,
                                      !.secrets = ltpaSecrets]
                  ELSE hist
  /\ UNCHANGED <<ltpaSecrets, validity, gracePeriod, strictExpirationValidation, now>>

\* characters: 'M', the control character U+0006, 'Ç' (in both codepages
\* and in the list), 'å' (codepage 850 only), 'Ł' and 'ő' (codepage 852 only)
Alphabet == {77, 6, 199, 229, 321, 337}

\* the strings of 1..MaxNameLen of these characters
Names == UNION {[1..n -> Alphabet] : n \in 1..MaxNameLen}

\* usernames go into tokens and are read back
NextNames ==
  \/ SetSecrets(TableA)
  \/ \E username \in Names : GenerateUserNameBuf(username)
  \/ GenerateNamed("example.com")
  \/ GetUserName(cookie)
  \/ GetUserNameBuf(cookie)
  \/ Return

SpecNames == Init /\ [][NextNames]_vars

\* timeStart given, left out, or given as 0
TimeStartsWithZero == TimeStarts \cup {<<0>>}

\* tokens are issued for any domain and start time under any configuration
NextGenerate ==
  \/ \E seconds \in Validities : SetValidity(seconds)
  \/ \E seconds \in GracePeriods : SetGracePeriod(seconds)
  \/ \E secrets \in SecretTables : SetSecrets(secrets)
  \/ Tick
  \/ \E u \in Users, d \in Domains, ts \in TimeStartsWithZero : Generate(u, d, ts)
  \/ Return

SpecGenerate == Init /\ [][NextGenerate]_vars

\* every text a caller may present
Texts == Presented \cup CutTexts \cup OddTexts

\* token texts of any kind are presented
NextParse ==
  \/ \E secrets \in SecretTables : SetSecrets(secrets)
  \/ \E u \in Users : Generate(u, "example.com", Absent)
  \/ \E t \in Texts, d \in Domains : Validate(t, d)
  \/ \E t \in Texts : GetUserNameBuf(t)
  \/ \E t \in Texts : GetUserName(t)
  \/ Return

SpecParse == Init /\ [][NextParse]_vars

\* the tokens of the regression tests, made for 'My Test User' and
\* 'example.com' with the secret AAECAwQFBgcICQoLDA0ODxAREhM=
knownTokens ==
  << [timeCreation |-> Epoch, validity |-> 5400, gracePeriod |-> 300,
      base64 |->
        <<65, 65, 69, 67, 65, 122, 81, 53, 79, 84, 89, 119, 77, 87, 69, 50, 78, 68,
          107, 53, 78, 106, 69, 53, 77, 84, 90, 78, 101, 83, 66, 85, 90, 88, 78, 48,
          73, 70, 86, 122, 90, 88, 74, 106, 99, 72, 77, 75, 121, 88, 73, 114, 116, 68,
          52, 83, 90, 99, 86, 55, 68, 75, 87, 100, 54, 55, 69, 70, 110, 103, 61, 61>>],
     [timeCreation |-> Epoch, validity |-> 5400, gracePeriod |-> 0,
      base64 |->
        <<65, 65, 69, 67, 65, 122, 81, 53, 79, 84, 89, 119, 77, 109, 81, 121, 78, 68,
          107, 53, 78, 106, 69, 51, 90, 87, 70, 78, 101, 83, 66, 85, 90, 88, 78, 48,
          73, 70, 86, 122, 90, 88, 74, 49, 72, 85, 105, 52, 102, 86, 72, 83, 101, 98,
          56, 74, 103, 65, 50, 120, 115, 86, 75, 48, 107, 106, 114, 111, 109, 103, 61, 61>>],
     [timeCreation |-> Epoch, validity |-> 10, gracePeriod |-> 0,
      base64 |->
        <<65, 65, 69, 67, 65, 122, 81, 53, 79, 84, 89, 119, 77, 109, 81, 121, 78, 68,
          107, 53, 78, 106, 65, 121, 90, 71, 78, 78, 101, 83, 66, 85, 90, 88, 78, 48,
          73, 70, 86, 122, 90, 88, 74, 115, 56, 122, 82, 70, 86, 101, 104, 72, 47, 99,
          57, 82, 112, 81, 47, 75, 118, 85, 80, 104, 66, 77, 53, 116, 100, 81, 61, 61>>] >>

\* 'My Test User'
userName == <<77, 121, 32, 84, 101, 115, 116, 32, 85, 115, 101, 114>>

KnownValidities == {knownTokens[i].validity : i \in 1..Len(knownTokens)}
KnownGracePeriods == {knownTokens[i].gracePeriod : i \in 1..Len(knownTokens)}

\* the regression tests: the configuration is set and a token is made for
\* the test user, for the start time of the known tokens or for now
NextKnown ==
  \/ \E seconds \in KnownValidities : SetValidity(seconds)
  \/ \E seconds \in KnownGracePeriods : SetGracePeriod(seconds)
  \/ \E secrets \in SecretTables : SetSecrets(secrets)
  \/ Tick
  \/ \E ts \in {Absent, <<Epoch>>} :
       Generate(generateUserNameBuf(userName), "example.com", ts)
  \/ Return

SpecKnown == Init /\ [][NextKnown]_vars

\* a secret of 21 bytes whose first 20 are those of the test secret
LongSecret == Base64Encode([i \in 1..21 |-> i - 1])

\* the table of the tests, and one more domain
TableC == ("example.com" :> Secret1) @@ ("invalid.example.com" :> Secret2)
          @@ ("long.example.com" :> LongSecret)

\* tokens are issued for one domain of a table and presented, for
\* validation or for a refresh, under every domain of it
NextDomains ==
  \/ \E secrets \in {TableB, TableC} : SetSecrets(secrets)
  \/ Tick
  \/ \E u \in Users, d \in DOMAIN TableB \cup DOMAIN TableC : Generate(u, d, Absent)
  \/ \E d \in DOMAIN TableB \cup DOMAIN TableC : Validate(cookie, d)
  \/ \E d \in DOMAIN TableB \cup DOMAIN TableC : Refresh(cookie, d)
  \/ Return

SpecDomains == Init /\ [][NextDomains]_vars

\* start times: left out, three seconds ago, and Infinity
TimeStartsWithInfinity == {Absent, <<Epoch - 3>>, Infinity}

\* tokens of any start time are validated under any configuration
NextTimes ==
  \/ SetValidity(2)
  \/ SetGracePeriod(1)
  \/ \E strict \in BOOLEAN : SetStrictExpirationValidation(strict)
  \/ SetSecrets(TableA)
  \/ Tick
  \/ \E u \in Users, ts \in TimeStartsWithInfinity : Generate(u, "example.com", ts)
  \/ \E t \in Presented, d \in Domains : Validate(t, d)
  \/ Return

SpecTimes == Init /\ [][NextTimes]_vars

\* start times whose texts have 1 to 8 characters, one below zero, and one
\* whose creation time has a text of 9 characters
SmallStart == 1000
NegativeStart == -5
LongStart == -268435456
TimeStartsOfAnyWidth ==
  {Absent, <<SmallStart>>, <<NegativeStart>>, <<Epoch>>, <<LongStart>>}

\* tokens are issued for start times whose texts have any width
NextStamps ==
  \/ \E seconds \in Validities : SetValidity(seconds)
  \/ \E seconds \in GracePeriods : SetGracePeriod(seconds)
  \/ SetSecrets(TableA)
  \/ Tick
  \/ \E u \in Users, ts \in TimeStartsOfAnyWidth : Generate(u, "example.com", ts)
  \/ Return

SpecStamps == Init /\ [][NextStamps]_vars

\* every exported function is called, with arguments it accepts and with
\* arguments it fails on
NextAll ==
  \/ SetValidity(2)
  \/ SetGracePeriod(1)
  \/ \E strict \in BOOLEAN : SetStrictExpirationValidation(strict)
  \/ \E secrets \in SecretTables : SetSecrets(secrets)
  \/ \E username \in {<<77>>, <<321>>} : GenerateUserNameBuf(username)
  \/ \E u \in Users, d \in Domains : Generate(u, d, Absent)
  \/ \E t \in Presented, d \in Domains : Validate(t, d)
  \/ \E t \in Presented, d \in Domains : Refresh(t, d)
  \/ \E t \in Presented \cup {PaddingOnly} : GetUserNameBuf(t)
  \/ \E t \in Presented \cup {PaddingOnly} : GetUserName(t)
  \/ Return

SpecAll == Init /\ [][NextAll]_vars

\* refresh, first statement: validate(token, domain) reads the clock; what it
\* throws ends the call
RefreshValidate(token, domain) ==
  /\ ret = None
  /\ \E e \in {validate(token, domain, now)} :
       /\ ret' = [op |-> "refresh", token |-> token, domain |-> domain,
                  err |-> IF e = OK THEN Running ELSE e, val |-> <<>>]
       /\ hist' = IF e = OK THEN [hist EXCEPT !.acceptedAt = now] ELSE hist
  /\ UNCHANGED <<ltpaSecrets, validity, gracePeriod, strictExpirationValidation,
                 now, cookie>>

\* a second ends while refresh runs: generate reads the clock again
ClockAdvances ==
  /\ ret.op = "refresh" /\ ret.err = Running
  /\ now < Epoch + MaxTicks
  /\ now' = now + 1
  /\ UNCHANGED <<ltpaSecrets, validity, gracePeriod, strictExpirationValidation,
                 cookie, ret, hist>>

\* a variant that starts the new token at the instant of the validation
RefreshGenerateAtValidation ==
  /\ ret.op = "refresh" /\ ret.err = Running
  /\ \E r \in {LET userNameBuf == getUserNameBuf(ret.token)
                IN IF userNameBuf.err # OK THEN userNameBuf
                   ELSE generate(userNameBuf.val, ret.domain, Absent, hist.acceptedAt)} :
       /\ ret' = [ret EXCEPT !.err = r.err, !.val = r.val]
       /\ cookie' = IF r.err = OK THEN r.val ELSE cookie
       /\ hist' = IF r.err = OK
                  THEN [hist EXCEPT !.domain = ret.domain, !.timeStart = Absent,
                                    !.at = hist.acceptedAt, !.validity = validity,
                                    !.gracePeriod = gracePeriod,
                                    !.secrets = ltpaSecrets, !.refreshed = TRUE]
                  ELSE hist
  /\ UNCHANGED <<ltpaSecrets, validity, gracePeriod, strictExpirationValidation, now>>

\* refresh, second statement: generate(getUserNameBuf(token), domain); the
\* caller keeps the new token
RefreshGenerate ==
  /\ ret.op = "refresh" /\ ret.err = Running
  /\ \E r \in {LET userNameBuf == getUserNameBuf(ret.token)
                IN IF userNameBuf.err # OK THEN userNameBuf
                   ELSE generate(userNameBuf.val, ret.domain, Absent, now)} :
       /\ ret' = [ret EXCEPT !.err = r.err, !.val = r.val]
       /\ cookie' = IF r.err = OK THEN r.val ELSE cookie
       /\ hist' = IF r.err = OK
                  THEN [hist EXCEPT !.domain = ret.domain, !.timeStart = Absent,
                                    !.at = now, !.validity = validity,
                                    !.gracePeriod = gracePeriod,
                                    !.secrets = ltpaSecrets, !.refreshed = TRUE]
                  ELSE hist
  /\ UNCHANGED <<ltpaSecrets, validity, gracePeriod, strictExpirationValidation, now>>

\* calls of setters, generate and refresh in any order, the clock going on
\* between calls and while refresh runs
NextSteps ==
  \/ \E seconds \in Validities : SetValidity(seconds)
  \/ \E seconds \in GracePeriods : SetGracePeriod(seconds)
  \/ \E strict \in BOOLEAN : SetStrictExpirationValidation(strict)
  \/ SetSecrets(TableA)
  \/ Tick
  \/ \E u \in Users, ts \in TimeStarts : Generate(u, "example.com", ts)
  \/ \E t \in Presented, d \in Domains : RefreshValidate(t, d)
  \/ ClockAdvances
  \/ RefreshGenerate
  \/ Return

SpecSteps == Init /\ [][NextSteps]_vars

-----------------------------------------------------------------------------
(* Properties.  First, what is known of the held token from the calls     *)
(* that made it: the terms the properties are stated in.                   *)

\* validate has just returned for the token the caller holds
Held == ret.op = "validate" /\ hist.issued /\ ret.token = cookie

\* the domain has a secret in the table now
Registered(d) == ltpaSecrets.defined /\ d \in DOMAIN ltpaSecrets.table

\* the start, creation and expiration times the token was generated with
IssuedStart == IF hist.timeStart = Absent THEN hist.at ELSE hist.timeStart[1]
IssuedCreation == IssuedStart - hist.gracePeriod
IssuedExpiration == IssuedStart + hist.validity + hist.gracePeriod

\* the raw secret the token was signed with
IssuedSecret == Base64Decode(hist.secrets.table[hist.domain])

\* the damage, if any, is outside the magic, outside the time fields
MagicIntact == ~(hist.tampered /\ hist.pos < 4)
TimesIntact == ~(hist.tampered /\ hist.pos \in 4..19)

\* the domain validated for has the secret the token was signed with
SameSecret == /\ Registered(ret.domain)
              /\ Base64Decode(ltpaSecrets.table[ret.domain]) = IssuedSecret

\* an undamaged token signed with the 20-byte secret of the domain asked for
Signed == ~hist.tampered /\ SameSecret /\ Len(IssuedSecret) >= 20

\* the configuration is the one the token was generated under
Unchanged == /\ validity = hist.validity
             /\ gracePeriod = hist.gracePeriod
             /\ ltpaSecrets = hist.secrets

NotYet == IssuedCreation - gracePeriod > now
LenientExpired == IssuedCreation + validity + (2 * gracePeriod) < now
StrictExpired == IssuedExpiration < now
Exp == IF strictExpirationValidation THEN StrictExpired ELSE LenientExpired

\* C1: the token generate returns for a registered domain, timeStart left
\* out, is accepted by validate for that domain while validity, gracePeriod
\* and the secrets are as they were at generation and the clock is inside
\* the token's window.
C1_RoundTrip ==
  (/\ Held /\ ~hist.tampered
   /\ ret.domain = hist.domain
   /\ hist.timeStart = Absent
   /\ Unchanged
   /\ now <= hist.at + validity + gracePeriod)
  => ret.err = OK

\* C2: for a token of 41 bytes or more and a registered domain validate
\* reports the first failing check in the order creation time, expiration
\* time, magic, signature; an expired token with a wrong magic or a wrong
\* signature is reported as expired.
C2_CheckOrder ==
  (Held /\ Registered(ret.domain) /\ TimesIntact) =>
    /\ NotYet => ret.err = NotYetValid
    /\ (~NotYet /\ Exp) => ret.err = Expired
    /\ (~NotYet /\ ~Exp /\ ~MagicIntact) => ret.err = BadMagic
    /\ (~NotYet /\ ~Exp /\ MagicIntact /\ ~SameSecret) => ret.err = BadSignature
    /\ (~NotYet /\ ~Exp /\ MagicIntact) => ret.err \in {BadSignature, OK}

\* an expired token with a wrong magic and a wrong signature, reported expired
C2_Witness ==
  /\ Held /\ Registered(ret.domain)
  /\ ~MagicIntact /\ ~SameSecret /\ Exp
  /\ ret.err = Expired

C4_NoSecret ==
  (/\ ret.op = "validate" /\ ret.token # <<>> /\ ret.domain # ""
   /\ ltpaSecrets.defined /\ ret.domain \notin DOMAIN ltpaSecrets.table)
  => ret.err = NoSecret

\* C5: with strict expiration off a token that passed the creation-time
\* check is reported expired exactly when its creation time plus the
\* validity and twice the grace period configured now is before now; with
\* the sum equal to now it is not.
C5_LenientExpiry ==
  (/\ Held /\ Registered(ret.domain) /\ TimesIntact
   /\ ~strictExpirationValidation /\ ~NotYet)
  => (ret.err = Expired <=> IssuedCreation + validity + (2 * gracePeriod) < now)

\* one second past the sum, while the stored expiration is still ahead
C5_Witness ==
  /\ Held /\ Registered(ret.domain) /\ ~strictExpirationValidation
  /\ IssuedCreation + validity + (2 * gracePeriod) + 1 = now
  /\ IssuedExpiration > now
  /\ ret.err = Expired

\* C6: with strict expiration on a token that passed the creation-time check
\* is reported expired exactly when its stored expiration is before now,
\* whatever validity and gracePeriod are now; a signed token whose stored
\* expiration has passed but whose recomputed one has not is accepted with
\* strict off and expired with strict on, and the other way round.
C6_StrictExpiry ==
  (Held /\ Registered(ret.domain) /\ TimesIntact /\ ~NotYet) =>
    /\ strictExpirationValidation => (ret.err = Expired <=> StrictExpired)
    /\ (Signed /\ StrictExpired /\ ~LenientExpired)
         => ret.err = IF strictExpirationValidation THEN Expired ELSE OK
    /\ (Signed /\ LenientExpired /\ ~StrictExpired)
         => ret.err = IF strictExpirationValidation THEN OK ELSE Expired

\* after setValidity: stored expiration passed, recomputed one not, strict on
C6_Witness ==
  /\ Held /\ Signed /\ strictExpirationValidation
  /\ validity # hist.validity
  /\ StrictExpired /\ ~LenientExpired
  /\ ret.err = Expired

\* C7: validate reports 'not yet valid' exactly when the creation time less
\* the grace period is after now; for a token generated with timeStart s
\* under the grace period configured now, exactly when s > now + 2 *
\* gracePeriod.
C7_NotYetValid ==
  (Held /\ Registered(ret.domain) /\ TimesIntact) =>
    /\ ret.err = NotYetValid <=> IssuedCreation - gracePeriod > now
    /\ (hist.timeStart # Absent /\ gracePeriod = hist.gracePeriod)
         => (ret.err = NotYetValid <=> hist.timeStart[1] > now + (2 * gracePeriod))

\* timeStart exactly two grace periods ahead: accepted
C7_Witness ==
  /\ Held /\ Signed /\ gracePeriod = hist.gracePeriod
  /\ hist.timeStart = <<now + (2 * gracePeriod)>>
  /\ ret.err = OK

\* C8: with the configuration unchanged and strict expiration off, a
\* correctly signed token generated with timeStart s is accepted at every
\* now with s - 2 * gracePeriod <= now <= s + validity + 2 * gracePeriod.
C8_DoubleGrace ==
  (/\ Held /\ Signed /\ Unchanged /\ ret.domain = hist.domain
   /\ ~strictExpirationValidation
   /\ hist.timeStart # Absent
   /\ hist.timeStart[1] - (2 * gracePeriod) <= now
   /\ now <= hist.timeStart[1] + validity + (2 * gracePeriod))
  => ret.err = OK

\* the token as generated was accepted for this domain at this second, and
\* comes back with one bit changed
Damaged == /\ Held /\ hist.tampered
           /\ ret.domain = hist.accepted /\ now = hist.acceptedAt

\* C9: one bit changed in the trailing 20 bytes of an accepted token makes
\* validate fail with "Ltpa Token signature doesn't validate"; one bit
\* changed in the 4 magic bytes, with 'Incorrect magic string'.
C9_SignatureAndMagic ==
  Damaged =>
    /\ hist.pos >= Len(hist.user) + 20 => ret.err = BadSignature
    /\ hist.pos < 4 => ret.err = BadMagic

\* a bit of the last signature byte changed
C9_Witness ==
  /\ Damaged /\ hist.pos = Len(hist.user) + 39
  /\ ret.err = BadSignature

\* C10 as stated: a change in the time fields or the username of an accepted
\* token makes validate fail with "Ltpa Token signature doesn't validate".
C10_BodySignatureError ==
  (Damaged /\ hist.pos \in 4..(Len(hist.user) + 19)) => ret.err = BadSignature

\* C10: a change in the time fields or the username of an accepted token
\* makes validate fail: with the signature error, unless the change is in
\* a time field and makes a time check fail first.
C10_BodyRejected ==
  (Damaged /\ hist.pos \in 4..(Len(hist.user) + 19)) =>
    /\ ret.err \in {BadSignature, NotYetValid, Expired}
    /\ hist.pos >= 20 => ret.err = BadSignature

\* a changed creation time that reads as a later time: not yet valid
C10_Witness ==
  /\ Damaged /\ hist.pos \in 4..11
  /\ ret.err = NotYetValid

\* C11: a non-empty token text that decodes to fewer than 41 bytes, validated
\* for a registered domain, fails with 'Ltpa Token too short'.
C11_TooShort ==
  (/\ ret.op = "validate"
   /\ ret.token # <<>>
   /\ Len(Base64Decode(ret.token)) < 41
   /\ Registered(ret.domain))
  => ret.err = TooShort

\* C12: a token that generate or refresh returns decodes to 40 bytes more
\* than the username buffer has, and to 41 bytes at least.
C12_Length ==
  (ret.op \in {"generate", "refresh"} /\ ret.err = OK) =>
    /\ Len(Base64Decode(ret.val)) = 20 + Len(hist.user) + 20
    /\ Len(Base64Decode(ret.val)) >= 41

\* C13: refresh fails with the error validate fails with, and returns no
\* token then; it returns a token only for input that validate accepts.
C13_RefreshValidates ==
  ret.op = "refresh" =>
    /\ ret.err = validate(ret.token, ret.domain, now)
    /\ ret.err # OK => ret.val = <<>>

\* a refresh refused for an expired token: for those validate and
\* generate would disagree
C13_Witness ==
  /\ ret.op = "refresh" /\ ret.token = cookie /\ hist.issued
  /\ ret.err = Expired /\ ret.val = <<>>

\* C14: the token refresh returns carries the username bytes of the token
\* given, the creation time now - gracePeriod and the expiration time
\* now + validity + gracePeriod of the current configuration, and validate
\* accepts it for the domain.
C14_RefreshFresh ==
  (ret.op = "refresh" /\ ret.err = OK) =>
    LET given == Base64Decode(ret.token)
        fresh == Base64Decode(ret.val)
    IN /\ BufferSlice(fresh, 20, Len(fresh) - 20) = BufferSlice(given, 20, Len(given) - 20)
       /\ TimeCreationOf(fresh) = NumOfInt(now - gracePeriod)
       /\ TimeExpirationOf(fresh) = NumOfInt(now + validity + gracePeriod)
       /\ validate(ret.val, ret.domain, now) = OK

\* a token refreshed whose times are not those of the new token
C14_Witness ==
  /\ ret.op = "refresh" /\ ret.err = OK
  /\ BufferSlice(Base64Decode(ret.token), 4, 20) # BufferSlice(Base64Decode(ret.val), 4, 20)
  /\ BufferSlice(Base64Decode(ret.val), 20, 21) = <<77>>

\* the characters that codepage 850 or the list of codepage 852 characters has
InTable(char) ==
  \/ char < 128
  \/ \E i \in 1..128 : Cp850[i] = char
  \/ \E i \in 1..Len(ibm852Chars) : ibm852Chars[i] = char

\* getUserName has returned for the token made of a username
ReadBack == /\ ret.op = "getUserName" /\ ret.token = cookie
            /\ hist.issued /\ hist.name # <<>>

\* C15: the username read from a token is the string its buffer was made
\* of, for every string of characters of the two tables.
C15_NameRoundTrip ==
  (ReadBack /\ \A i \in 1..Len(hist.name) : InTable(hist.name[i])) =>
    (ret.err = OK /\ ret.val = hist.name)

\* the username bytes of the held token are as issued
UserIntact == ~(hist.tampered /\ hist.pos \in 20..(Len(hist.user) + 19))

\* C16: getUserNameBuf and getUserName return the username of a token
\* without validating it: whatever the secrets, validity, gracePeriod, the
\* strict flag and the clock are, and also when the magic or the signature
\* is damaged.
C16_NoValidation ==
  (/\ ret.op \in {"getUserNameBuf", "getUserName"}
   /\ ret.token = cookie /\ hist.issued /\ UserIntact)
  => (ret.err = OK /\ ret.val = hist.user)

\* the username read from a token with a damaged magic, after the table
\* and the validity were changed, at a time when it has expired
C16_Witness ==
  /\ ret.op = "getUserName" /\ ret.token = cookie /\ hist.issued
  /\ ret.err = OK /\ ret.val = hist.user
  /\ hist.tampered /\ hist.pos = 0
  /\ ltpaSecrets # hist.secrets /\ validity # hist.validity
  /\ validate(cookie, hist.domain, now) = Expired

\* C17: getUserNameBuf and getUserName fail with 'No token provided' for
\* the empty text and with 'Ltpa Token too short' for a text that decodes
\* to fewer than 41 bytes.
C17_ParseChecks ==
  ret.op \in {"getUserNameBuf", "getUserName"} =>
    /\ ret.token = <<>> => ret.err = NoToken
    /\ (ret.token # <<>> /\ Len(Base64Decode(ret.token)) < 41) => ret.err = TooShort

\* C18: setSecrets replaces the table: after a call with a table, every
\* domain of that table resolves to its secret there and every other domain
\* to none, whatever the table was before; validate for a domain the
\* current table does not have fails with 'No such server secret exists'.
C18_SetSecretsReplaces ==
  /\ [][\A secrets \in SecretTables : SetSecrets(secrets) =>
          \A d \in Domains \ ObjectPrototypeKeys :
            SecretOf(ltpaSecrets', d) =
              IF d \in DOMAIN secrets THEN secrets[d] ELSE Undefined]_vars
  /\ [](( /\ ret.op = "validate" /\ ret.token # <<>>
          /\ ret.domain \notin ({""} \cup ObjectPrototypeKeys)
          /\ ltpaSecrets.defined
          /\ ret.domain \notin DOMAIN ltpaSecrets.table)
        => ret.err = NoSecret)

\* a token issued for short.example.com under the table that has it,
\* validated for that domain after a table without it was set
C18_Witness ==
  /\ Held /\ hist.domain = "short.example.com"
  /\ hist.secrets = Table(TableB) /\ ltpaSecrets = Table(TableA)
  /\ ret.domain = "short.example.com" /\ ret.err = NoSecret

\* C19: generate stores the creation time start - gracePeriod and the
\* expiration time start + validity + gracePeriod, where start is timeStart
\* when it is given (0 included) and the clock when it is left out.
C19_StoredTimes ==
  (ret.op = "generate" /\ ret.err = OK) =>
    LET start == IF hist.timeStart = Absent THEN now ELSE hist.timeStart[1]
        ltpaToken == Base64Decode(ret.val)
    IN /\ TimeCreationOf(ltpaToken) = NumOfInt(start - gracePeriod)
       /\ TimeExpirationOf(ltpaToken) = NumOfInt(start + validity + gracePeriod)

\* C20: generate for a domain without a registered secret returns no token
\* and fails with the error validate gives for such a domain.
C20_GenerateNoSecret ==
  (/\ ret.op = "generate" /\ ltpaSecrets.defined
   /\ ret.domain \notin DOMAIN ltpaSecrets.table
   /\ ret.domain \notin ({""} \cup ObjectPrototypeKeys))
  => (ret.err = NoSecret /\ ret.val = <<>>)

\* C21: generate's result for a given timeStart is fixed by the username
\* bytes, the domain's secret, timeStart, validity and gracePeriod (the clock
\* plays no part), and for the test user, the test secret and timeStart
\* 1234567890 it is the known token of each listed configuration.
C21_KnownVectors ==
  (ret.op = "generate" /\ ret.err = OK /\ hist.timeStart # Absent) =>
    /\ \A clock \in {0, Epoch + 7} :
         generate(hist.user, ret.domain, hist.timeStart, clock).val = ret.val
    /\ \A i \in 1..Len(knownTokens) :
         (/\ hist.user = userName
          /\ ltpaSecrets.table[ret.domain] = Secret1
          /\ hist.timeStart = <<knownTokens[i].timeCreation>>
          /\ validity = knownTokens[i].validity
          /\ gracePeriod = knownTokens[i].gracePeriod)
         => ret.val = knownTokens[i].base64

\* a known token has been generated
C21_Witness ==
  /\ ret.op = "generate" /\ ret.err = OK /\ hist.user = userName
  /\ hist.timeStart = <<Epoch>> /\ validity = 10 /\ gracePeriod = 0
  /\ ltpaSecrets = Table(TableA)
  /\ ret.val = knownTokens[3].base64

\* the held token is presented under a registered domain whose secret is
\* not the one it was signed with, inside its time window
OtherSecret(d) ==
  /\ hist.issued /\ cookie # <<>>
  /\ Registered(d)
  /\ ltpaSecrets.table[d] # hist.secrets.table[hist.domain]
  /\ ~NotYet /\ ~Exp

\* C22: a token generated for one domain is rejected by validate and by
\* refresh under another registered domain whose secret differs, with
\* 'Ltpa Token signature doesn't validate', when it is inside its time
\* window.
C22_OtherSecret ==
  [][\A d \in DOMAIN TableB \cup DOMAIN TableC :
       (OtherSecret(d) /\ (Validate(cookie, d) \/ Refresh(cookie, d)))
       => ret'.err = BadSignature]_vars

\* C23: whenever validate returns without error the decoded token has 41
\* bytes or more, the magic 00 01 02 03, a signature equal to the SHA-1 of
\* the buffer with the domain's secret over the last 20 bytes, a creation
\* time with timeCreation - gracePeriod <= now, and an expiry bound (the
\* stored one in strict mode, timeCreation + validity + 2 * gracePeriod
\* otherwise) >= now, whatever the time fields hold.
C23_AcceptedMeansChecked ==
  (ret.op = "validate" /\ ret.err = OK) =>
    LET ltpaToken == BufferAllocBase64(byteLengthBase64(ret.token), ret.token)
        timeCreation == TimeCreationOf(ltpaToken)
        exp == IF strictExpirationValidation THEN TimeExpirationOf(ltpaToken)
               ELSE JsAdd(timeCreation, validity + (gracePeriod * 2))
    IN /\ Len(ltpaToken) >= 41
       /\ BufferSlice(ltpaToken, 0, 4) = VERSION
       /\ HashMatches(ltpaToken, ltpaSecrets.table[ret.domain])
       /\ timeCreation # NaN
       /\ ~NumLess(NumOfInt(now), NumAdd(timeCreation, 0 - gracePeriod))
       /\ exp # NaN
       /\ ~NumLess(exp, NumOfInt(now))

\* the text of a time field: its bytes up to the first zero byte
RECURSIVE FieldText(_)
FieldText(field) ==
  IF field = <<>> \/ Head(field) = 0 THEN <<>>
  ELSE <<Head(field)>> \o FieldText(Tail(field))

\* the field holds the text of `n` and zero bytes after it; the text starts
\* with no '0' unless it is '0'
LeftPacked(field, n) ==
  LET text == FieldText(field)
      digits == IF text # <<>> /\ text[1] = 45 THEN Tail(text) ELSE text
  IN /\ parseInt16(text) = NumOfInt(n)
     /\ field = text \o SubSeq([i \in 1..8 |-> 0], 1, 8 - Len(text))
     /\ digits # <<>>
     /\ (digits[1] = 48 => Len(digits) = 1)
     /\ \A i \in 1..Len(digits) : digits[i] \in (48..57) \cup (97..102)

\* the least time whose text ('-' and 7 digits) has 8 characters
MinTime == -268435455

\* the times generate has just written
WrittenStart == IF hist.timeStart = Absent THEN now ELSE hist.timeStart[1]
WrittenCreation == WrittenStart - gracePeriod
WrittenExpiration == WrittenStart + validity + gracePeriod

\* C24: when the texts of both times have at most 8 characters, the token
\* holds them as lowercase hexadecimal text at offsets 4 and 12, left-packed
\* and not zero-padded, parsing gives the same times back, and the magic and
\* the username bytes are as written.
C24_TimesAsHexText ==
  (/\ ret.op = "generate" /\ ret.err = OK
   /\ hist.timeStart # <<0>>
   /\ WrittenCreation >= MinTime /\ WrittenExpiration >= MinTime) =>
    LET ltpaToken == Base64Decode(ret.val)
    IN /\ TimeCreationOf(ltpaToken) = NumOfInt(WrittenCreation)
       /\ TimeExpirationOf(ltpaToken) = NumOfInt(WrittenExpiration)
       /\ LeftPacked(BufferSlice(ltpaToken, 4, 12), WrittenCreation)
       /\ LeftPacked(BufferSlice(ltpaToken, 12, 20), WrittenExpiration)
       /\ BufferSlice(ltpaToken, 0, 4) = VERSION
       /\ BufferSlice(ltpaToken, 20, Len(ltpaToken) - 20) = hist.user

\* a token whose creation time is below zero and has a text of 4
\* characters, and whose expiration time has a text of 3 characters
C24_Witness ==
  /\ ret.op = "generate" /\ ret.err = OK
  /\ hist.timeStart = <<NegativeStart>> /\ gracePeriod = 300 /\ validity = 2
  /\ FieldText(BufferSlice(Base64Decode(ret.val), 4, 12)) = <<45, 49, 51, 49>>
  /\ FieldText(BufferSlice(Base64Decode(ret.val), 12, 20)) = <<49, 50, 57>>

\* the four configuration fields
config == <<ltpaSecrets, validity, gracePeriod, strictExpirationValidation>>

\* C25: each setter changes its own configuration field and none of the
\* other three, and generate, validate, refresh, generateUserNameBuf,
\* getUserName and getUserNameBuf change none of the four, whether they
\* succeed or fail.
C25_Frame ==
  [][/\ (\E seconds \in Validities : SetValidity(seconds))
        => UNCHANGED <<ltpaSecrets, gracePeriod, strictExpirationValidation>>
     /\ (\E seconds \in GracePeriods : SetGracePeriod(seconds))
        => UNCHANGED <<ltpaSecrets, validity, strictExpirationValidation>>
     /\ (\E strict \in BOOLEAN : SetStrictExpirationValidation(strict))
        => UNCHANGED <<ltpaSecrets, validity, gracePeriod>>
     /\ (\E secrets \in SecretTables : SetSecrets(secrets))
        => UNCHANGED <<validity, gracePeriod, strictExpirationValidation>>
     /\ ret'.op \in {"generate", "validate", "refresh", "generateUserNameBuf",
                     "getUserName", "getUserNameBuf"}
        => UNCHANGED config]_vars

\* a refresh has failed under a configuration in which every field was set
C25_Witness ==
  /\ ret.op = "refresh" /\ ret.err # OK
  /\ validity = 2 /\ gracePeriod = 1 /\ strictExpirationValidation
  /\ ltpaSecrets = Table(TableB)

\* C26: a call runs to completion before any other call starts: while
\* refresh is between its validate step and its generate step the
\* configuration does not change and the only call that proceeds is that
\* refresh, so each call reads one configuration throughout.
C26_RunToCompletion ==
  [][(ret.op = "refresh" /\ ret.err = Running) =>
       /\ UNCHANGED config
       /\ ret'.op = "refresh" /\ ret'.token = ret.token /\ ret'.domain = ret.domain]_vars

\* a refresh is between its two steps under a configuration that was set
C26_Witness ==
  /\ ret.op = "refresh" /\ ret.err = Running
  /\ validity = 2 /\ gracePeriod = 1 /\ strictExpirationValidation

\* C27 as stated: refresh issues its token at the instant at which it found
\* the input valid, so validate accepts the input at the instant of issue.
C27_ClockAtomic ==
  (ret.op = "refresh" /\ ret.err = OK) =>
    /\ hist.acceptedAt = hist.at
    /\ validate(ret.token, ret.domain, hist.at) = OK

\* C27, amended: refresh reads the clock twice; the input is valid at the
\* first reading, and the new token's window is computed from the second
\* reading, which is not earlier.
C27_TwoReadings ==
  (ret.op = "refresh" /\ ret.err = OK) =>
    /\ validate(ret.token, ret.domain, hist.acceptedAt) = OK
    /\ hist.acceptedAt <= now
    /\ TimeCreationOf(Base64Decode(ret.val)) = NumOfInt(now - gracePeriod)
    /\ TimeExpirationOf(Base64Decode(ret.val)) = NumOfInt(now + validity + gracePeriod)

\* the clock advanced while a refresh ran, past the end of the input's window
C27_Witness ==
  /\ ret.op = "refresh" /\ ret.err = OK
  /\ hist.acceptedAt < now
  /\ validate(ret.token, ret.domain, now) = Expired

\* the seconds around the ends of the windows of the tokens issued
Instants == (Epoch - 2)..(Epoch + MaxTicks + 4)

\* C28: for a token generate produced, while validity and gracePeriod are as
\* they were at generation, the lenient bound timeCreation + validity +
\* 2 * gracePeriod is the stored timeExpiration, and switching between strict
\* and lenient mode changes the verdict of the expiration check at no
\* instant.
C28_StrictEqualsLenient ==
  /\ [][(/\ strictExpirationValidation' # strictExpirationValidation
          /\ hist.issued
          /\ validity = hist.validity /\ gracePeriod = hist.gracePeriod) =>
           \E timeCreation \in {TimeCreationOf(Base64Decode(cookie))},
              timeExpiration \in {TimeExpirationOf(Base64Decode(cookie))} :
             \A clock \in Instants :
               ExpiredCheck(timeCreation, timeExpiration, clock)
               = ExpiredCheck(timeCreation, timeExpiration, clock)'
        ]_vars
  /\ []((hist.issued /\ validity = hist.validity /\ gracePeriod = hist.gracePeriod)
        => JsAdd(TimeCreationOf(Base64Decode(cookie)), validity + (gracePeriod * 2))
           = TimeExpirationOf(Base64Decode(cookie)))

\* a token is found expired in strict mode under the configuration it was
\* generated with
C28_Witness ==
  /\ Held /\ ret.err = Expired /\ strictExpirationValidation
  /\ validity = hist.validity /\ gracePeriod = hist.gracePeriod
  /\ hist.timeStart = <<Epoch - 3>>

\* the signature of a token under a secret: the SHA-1 of the token with the
\* secret written over its last 20 bytes
SignatureOf(ltpaToken, serverSecret) ==
  sha1(BufferWrite(ltpaToken, Base64Decode(serverSecret), Len(ltpaToken) - 20, 20))

\* C29: for every secret the table can hold, the signature of a token does
\* not depend on the bytes in its signature field: signing the signed token
\* again gives the signature it carries, which is the one signing the token
\* with an empty signature field gave, and the signature check accepts it
\* under the same secret.
C29_SignatureField ==
  (hist.issued /\ cookie # <<>> /\ ltpaSecrets = hist.secrets) =>
    \E ltpaToken \in {Base64Decode(cookie)} :
    \E unsigned \in {BufferWrite(ltpaToken, BufferAlloc(20), Len(ltpaToken) - 20, 20)},
       serverSecret \in {ltpaSecrets.table[hist.domain]} :
      /\ SignatureOf(unsigned, serverSecret)
         = BufferSlice(ltpaToken, Len(ltpaToken) - 20, Len(ltpaToken))
      /\ SignatureOf(ltpaToken, serverSecret) = SignatureOf(unsigned, serverSecret)
      /\ HashMatches(ltpaToken, serverSecret)

\* the number of instants, and the k-th of them
NumInstants == Cardinality(Instants)
Instant(k) == Epoch - 3 + k

\* C30: under one configuration validate's verdict on the held token, just
\* given for the present instant, is monotone in time: after an instant at
\* which it gives 'Ltpa Token has expired' it gives that error at every later
\* instant, after an instant at which the not-yet-valid check passes that
\* check passes at every later instant, and the instants at which the token
\* is accepted have no gap.
C30_Monotone ==
  (Held /\ ret.domain = hist.domain /\ Registered(hist.domain)) =>
    \E verdict \in {SubSeq([k \in 1..NumInstants |->
                              validate(cookie, hist.domain, Instant(k))],
                            1, NumInstants)},
       timeCreation \in {TimeCreationOf(Base64Decode(cookie))} :
      \A j \in 1..NumInstants, k \in 1..NumInstants :
        j < k =>
          /\ Instant(j) = now => verdict[j] = ret.err
          /\ verdict[j] = Expired => verdict[k] = Expired
          /\ ~NotYetValidCheck(timeCreation, Instant(j))
             => ~NotYetValidCheck(timeCreation, Instant(k))
          /\ (verdict[j] = OK /\ verdict[k] = OK)
             => \A i \in j..k : verdict[i] = OK

\* validate accepts the held token, which was not yet valid three seconds
\* ago and will have expired in four seconds
C30_Witness ==
  /\ Held /\ ret.err = OK /\ ret.domain = hist.domain /\ now = Epoch + 1
  /\ validate(cookie, hist.domain, now - 3) = NotYetValid
  /\ validate(cookie, hist.domain, now + 4) = Expired

====
